---- MODULE Spec2Model ----
(***************************************************************************)
(* Model of ClassJunosTool (junos_tool.py): a client object holding one    *)
(* session handle, with connect/close and four read-only query methods     *)
(* that flatten the device's nested JSON reply into a small dictionary.    *)
(*                                                                         *)
(* JSON values are modelled directly: a dict is a function whose domain is *)
(* the set of its keys, a list is a sequence, a string is an atomic string *)
(* except where the code looks inside it (the '/'-split of an address and  *)
(* the substring test on a pool name), where it is a sequence of           *)
(* characters.  A Python call is modelled by an operator returning         *)
(*   [exc |-> the exception that leaves the call, or "none",               *)
(*    val |-> the returned value, out |-> what was printed].               *)
(***************************************************************************)
EXTENDS Integers, Sequences, FiniteSets, TLC

VARIABLES device, conn, status, exitCode, call, ret

vars == <<device, conn, status, exitCode, call, ret>>

(* Longest lists in a reply: rule entries, pool entries, zone interfaces,  *)
(* interface addresses                                                     *)
MaxRules == 2
MaxPools == 2
MaxIfaces == 2
MaxAddrs == 2
(* Longest raw address string, in characters *)
MaxAddrLen == 3

--------------------------------------------------------------------------
(* Python values *)

EmptyDict == [k \in {} |-> 0]
None == <<>>
NoOutput == "-"

Returned(v, o) == [exc |-> "none", val |-> v, out |-> o]
Raised(e, o) == [exc |-> e, val |-> None, out |-> o]

(* Steps of a fixed path: d[key] and l[0] *)
K(name) == <<"key", name>>
I0 == <<"idx", "0">>

RECURSIVE Descend(_, _)
(* node[s1][s2]...: a missing key raises KeyError, an empty list at [0]   *)
(* raises IndexError; the first failing step decides.                      *)
Descend(node, path) ==
    IF Len(path) = 0 THEN [exc |-> "none", v |-> node]
    ELSE LET s == Head(path) IN
         IF s[1] = "key"
         THEN IF s[2] \in DOMAIN node
              THEN Descend(node[s[2]], Tail(path))
              ELSE [exc |-> "KeyError", v |-> None]
         ELSE IF Len(node) >= 1
              THEN Descend(node[1], Tail(path))
              ELSE [exc |-> "IndexError", v |-> None]

(* e[key][0]['data'] *)
DataOf(key) == <<K(key), I0, K("data")>>

(* s.rsplit('/', 1)[0]: the characters before the last '/' *)
SplitSlashLast(s) ==
    LET cuts == {i \in 1..Len(s) : s[i] = "/"}
    IN  IF cuts = {} THEN s
        ELSE SubSeq(s, 1, (CHOOSE i \in cuts : \A j \in cuts : i >= j) - 1)

(* s.split('/')[0]: the characters before the first '/', all of s if none *)
SplitSlashFirst(s) ==
    LET cuts == {i \in 1..Len(s) : s[i] = "/"}
    IN  IF cuts = {} THEN s
        ELSE SubSeq(s, 1, (CHOOSE i \in cuts : \A j \in cuts : i <= j) - 1)

(* a in b, for Python strings: a occurs in b as a contiguous substring *)
StrIn(a, b) ==
    \E i \in 0..(Len(b) - Len(a)) : SubSeq(b, i + 1, i + Len(a)) = a

--------------------------------------------------------------------------
(* get_snat_cfg *)

SnatPath == <<K("ssg-source-nat-summary-information"), I0,
              K("ssg-source-rule-entry")>>

(* SnatRuleOf with the two zone fields exchanged *)
SnatRuleOfSwapped(e) ==
    LET f == Descend(e, DataOf("ssg-source-rule-context-from"))
        t == Descend(e, DataOf("ssg-source-rule-context-to"))
        a == Descend(e, DataOf("ssg-source-rule-action"))
        n == Descend(e, DataOf("ssg-source-rule-name"))
    IN  IF f.exc # "none" THEN [exc |-> f.exc, v |-> None]
        ELSE IF t.exc # "none" THEN [exc |-> t.exc, v |-> None]
        ELSE IF a.exc # "none" THEN [exc |-> a.exc, v |-> None]
        ELSE IF n.exc # "none" THEN [exc |-> n.exc, v |-> None]
        ELSE [exc |-> "none",
              v |-> [name |-> n.v, from |-> t.v, to |-> f.v, action |-> a.v]]

(* One iteration of the loop body: the four lookups in source order *)
SnatRuleOf(e) ==
    LET f == Descend(e, DataOf("ssg-source-rule-context-from"))
        t == Descend(e, DataOf("ssg-source-rule-context-to"))
        a == Descend(e, DataOf("ssg-source-rule-action"))
        n == Descend(e, DataOf("ssg-source-rule-name"))
    IN  IF f.exc # "none" THEN [exc |-> f.exc, v |-> None]
        ELSE IF t.exc # "none" THEN [exc |-> t.exc, v |-> None]
        ELSE IF a.exc # "none" THEN [exc |-> a.exc, v |-> None]
        ELSE IF n.exc # "none" THEN [exc |-> n.exc, v |-> None]
        ELSE [exc |-> "none",
              v |-> [name |-> n.v, from |-> f.v, to |-> t.v, action |-> a.v]]

RECURSIVE SnatLoop(_, _)
(* The for loop: acc is snat_rule_list so far; stops at the first raise *)
SnatLoop(entries, acc) ==
    IF Len(entries) = 0 THEN [exc |-> "none", v |-> acc]
    ELSE LET r == SnatRuleOf(Head(entries)) IN
         IF r.exc # "none" THEN [exc |-> r.exc, v |-> acc]
         ELSE SnatLoop(Tail(entries), Append(acc, r.v))

SnatNoConfig == ("entry" :> 0 @@ "snat_cfg" :> <<>>)

get_snat_cfg(resp) ==
    LET top == Descend(resp, SnatPath)
        loop == SnatLoop(top.v, <<>>)
        exc == IF top.exc # "none" THEN top.exc ELSE loop.exc
    IN  IF exc = "none"
        THEN Returned(("entry" :> Len(loop.v) @@ "snat_entry" :> loop.v),
                      NoOutput)
        ELSE IF exc = "KeyError"
        THEN Returned(SnatNoConfig, "No SNAT config")
        ELSE Raised(exc, NoOutput)

--------------------------------------------------------------------------
(* get_snat_pool_ip *)

PoolEntryPath == <<K("source-nat-pool-detail-information"), I0,
                   K("source-nat-pool-info-entry"), I0>>
PoolNamePath == PoolEntryPath \o DataOf("pool-name")
PoolDetailPath == PoolEntryPath \o <<K("source-pool-address-range"), I0>>

PoolNotFound(snat_pool) ==
    ("entry" :> 0 @@ "pool_name" :> snat_pool @@ "address_range" :> <<>>)

(* The body of the if: pool_detail, address_low, address_high in order *)
PoolRangeOf(resp) ==
    LET d == Descend(resp, PoolDetailPath)
        lo == Descend(d.v, DataOf("address-range-low"))
        hi == Descend(d.v, DataOf("address-range-high"))
    IN  IF d.exc # "none" THEN [exc |-> d.exc, v |-> None]
        ELSE IF lo.exc # "none" THEN [exc |-> lo.exc, v |-> None]
        ELSE IF hi.exc # "none" THEN [exc |-> hi.exc, v |-> None]
        ELSE [exc |-> "none", v |-> <<lo.v, hi.v>>]

(* get_snat_pool_ip looking at the second pool entry when the first one    *)
(* does not match                                                          *)
get_snat_pool_ip_scan(snat_pool, resp) ==
    LET pn == Descend(resp, PoolNamePath)
        l == Descend(resp, SubSeq(PoolEntryPath, 1, 3))
        e2 == l.v[2]
        n2 == Descend(e2, DataOf("pool-name"))
        lo2 == Descend(e2, <<K("source-pool-address-range"), I0>>
                           \o DataOf("address-range-low"))
        hi2 == Descend(e2, <<K("source-pool-address-range"), I0>>
                           \o DataOf("address-range-high"))
        hit == pn.exc = "none" /\ StrIn(snat_pool, pn.v)
        rg == PoolRangeOf(resp)
        exc == IF pn.exc # "none" THEN pn.exc
               ELSE IF hit THEN rg.exc ELSE "none"
    IN  IF exc = "none"
        THEN IF hit
             THEN Returned(("entry" :> 1 @@ "pool_name" :> snat_pool
                            @@ "address_range" :> rg.v), NoOutput)
             ELSE IF /\ Len(l.v) >= 2 /\ n2.exc = "none"
                     /\ StrIn(snat_pool, n2.v)
                     /\ lo2.exc = "none" /\ hi2.exc = "none"
             THEN Returned(("entry" :> 1 @@ "pool_name" :> snat_pool
                            @@ "address_range" :> <<lo2.v, hi2.v>>), NoOutput)
             ELSE Returned(EmptyDict, NoOutput)
        ELSE IF exc = "KeyError"
        THEN Returned(PoolNotFound(snat_pool), "No pool can be found!")
        ELSE Raised(exc, NoOutput)

get_snat_pool_ip(snat_pool, resp) ==
    LET pn == Descend(resp, PoolNamePath)
        hit == pn.exc = "none" /\ StrIn(snat_pool, pn.v)
        rg == PoolRangeOf(resp)
        exc == IF pn.exc # "none" THEN pn.exc
               ELSE IF hit THEN rg.exc ELSE "none"
    IN  IF exc = "none"
        THEN IF hit
             THEN Returned(("entry" :> 1 @@ "pool_name" :> snat_pool
                            @@ "address_range" :> rg.v), NoOutput)
             ELSE Returned(EmptyDict, NoOutput)
        ELSE IF exc = "KeyError"
        THEN Returned(PoolNotFound(snat_pool), "No pool can be found!")
        ELSE Raised(exc, NoOutput)

--------------------------------------------------------------------------
(* get_zone_interface *)

ZonePath == <<K("zones-information"), I0, K("zones-security"), I0,
              K("zones-security-interfaces"), I0,
              K("zones-security-interface-name")>>

RECURSIVE ZoneLoop(_, _)
(* for items in security_interfaces: interfaces_list.append(items['data']) *)
ZoneLoop(items, acc) ==
    IF Len(items) = 0 THEN [exc |-> "none", v |-> acc]
    ELSE LET r == Descend(Head(items), <<K("data")>>) IN
         IF r.exc # "none" THEN [exc |-> r.exc, v |-> acc]
         ELSE ZoneLoop(Tail(items), Append(acc, r.v))

ZoneNotFound(zone) ==
    ("entry" :> 0 @@ "zone" :> zone @@ "interface" :> <<>>)

get_zone_interface(zone, resp) ==
    LET top == Descend(resp, ZonePath)
        loop == ZoneLoop(top.v, <<>>)
        exc == IF top.exc # "none" THEN top.exc ELSE loop.exc
    IN  IF exc = "none"
        THEN Returned(("entry" :> Len(loop.v) @@ "zone" :> zone
                       @@ "interfaces" :> loop.v), NoOutput)
        ELSE IF exc = "KeyError"
        THEN Returned(ZoneNotFound(zone), "Security zone does not exist!")
        ELSE Raised(exc, NoOutput)

--------------------------------------------------------------------------
(* get_interface_ip *)

IfacePath == <<K("interface-information"), I0, K("logical-interface"), I0,
               K("address-family"), I0, K("interface-address")>>

RECURSIVE IpLoop(_, _)
(* for items in logical_interface:                                         *)
(*     ip_list.append(items['ifa-local'][0]['data'].split('/')[0])         *)
(* acc is ip_list, which lives outside the try and keeps what was appended *)
IpLoop(items, acc) ==
    IF Len(items) = 0 THEN [exc |-> "none", v |-> acc]
    ELSE LET r == Descend(Head(items), DataOf("ifa-local")) IN
         IF r.exc # "none" THEN [exc |-> r.exc, v |-> acc]
         ELSE IpLoop(Tail(items), Append(acc, SplitSlashFirst(r.v)))

get_interface_ip(interface, resp) ==
    LET top == Descend(resp, IfacePath)
        loop == IF top.exc = "none" THEN IpLoop(top.v, <<>>)
                ELSE [exc |-> top.exc, v |-> <<>>]
        ip_list == loop.v
        interface_ip == ("entry" :> Len(ip_list) @@ "interface" :> interface
                         @@ "ip" :> ip_list)
    IN  IF loop.exc = "none" THEN Returned(interface_ip, NoOutput)
        ELSE IF loop.exc = "KeyError"
        THEN Returned(interface_ip, "No IP can be found")
        ELSE Raised(loop.exc, NoOutput)

--------------------------------------------------------------------------
(* The device's replies: what the external RPC layer may hand back.  Every *)
(* reply has the vendor's layout, but any dict along the fixed path may    *)
(* lack its key and any list may be empty.                                 *)

SeqsUpTo(S, n) == UNION {[1..k -> S] : k \in 0..n}

(* Lists of at most n entries: any entry of Full first, then entries of    *)
(* the smaller set Core                                                    *)
ListsUpTo(Full, Core, n) ==
    {<<>>} \cup {<<f>> \o t : f \in Full, t \in SeqsUpTo(Core, n - 1)}

RECURSIVE Build(_, _)
(* The nested reply that holds leaf at the end of path *)
Build(path, leaf) ==
    IF Len(path) = 0 THEN leaf
    ELSE IF Head(path)[1] = "key"
    THEN (Head(path)[2] :> Build(Tail(path), leaf))
    ELSE <<Build(Tail(path), leaf)>>

(* Replies in which step i of path is absent: an empty dict or empty list *)
Truncated(path) == {Build(SubSeq(path, 1, i - 1), <<>>) : i \in 1..Len(path)}

Data(v) == <<("data" :> v)>>

(* d without key k; d with d[k] = []; d with d[k] = [{}] *)
Damaged(d, k) ==
    { [x \in DOMAIN d \ {k} |-> d[x]],
      (k :> <<>>) @@ d,
      (k :> <<EmptyDict>>) @@ d }

SnatEntry(n, f, t, a) ==
    ("ssg-source-rule-name" :> Data(n)
     @@ "ssg-source-rule-context-from" :> Data(f)
     @@ "ssg-source-rule-context-to" :> Data(t)
     @@ "ssg-source-rule-action" :> Data(a))

GoodSnatEntries ==
    {SnatEntry("source-nat-rule", "trust", "untrust", "interface"),
     SnatEntry("snat-rule", "trust", "test", "pool_outbound"),
     SnatEntry("snat-rule", "test", "trust", "interface")}

BadSnatEntries ==
    UNION {Damaged(SnatEntry("snat-rule", "trust", "test", "pool_outbound"), k)
           : k \in {"ssg-source-rule-name", "ssg-source-rule-context-from",
                    "ssg-source-rule-context-to", "ssg-source-rule-action"}}

CoreSnatEntries ==
    GoodSnatEntries
    \cup Damaged(SnatEntry("snat-rule", "trust", "test", "pool_outbound"),
                 "ssg-source-rule-action")

SnatReplies ==
    {Build(SnatPath, l)
       : l \in ListsUpTo(GoodSnatEntries \cup BadSnatEntries,
                         CoreSnatEntries, MaxRules)}
    \cup Truncated(SnatPath)

(* Pool names are strings of characters: the code tests one inside another *)
PoolNames == {<<"a">>, <<"a", "b">>, <<"b">>}

PoolRange(lo, hi) ==
    ("address-range-low" :> Data(lo) @@ "address-range-high" :> Data(hi))

PoolEntry(n, rg) ==
    ("pool-name" :> Data(n) @@ "source-pool-address-range" :> <<rg>>)

GoodRanges == {PoolRange("1.2.3.4", "1.2.3.4"), PoolRange("5.6.7.1", "5.6.7.9")}

GoodPoolEntries == {PoolEntry(n, rg) : n \in PoolNames, rg \in GoodRanges}

BadPoolEntries ==
    LET rg == PoolRange("1.2.3.4", "1.2.3.4")
        e == PoolEntry(<<"a">>, rg)
    IN  Damaged(e, "pool-name")
        \cup { [x \in DOMAIN e \ {"source-pool-address-range"} |-> e[x]],
               ("source-pool-address-range" :> <<>>) @@ e }
        \cup {PoolEntry(<<"a">>, b)
                : b \in Damaged(rg, "address-range-low")
                        \cup Damaged(rg, "address-range-high")}

PoolListPath == SubSeq(PoolEntryPath, 1, 3)

CorePoolEntries ==
    {PoolEntry(n, PoolRange("5.6.7.1", "5.6.7.9")) : n \in PoolNames}
    \cup {PoolEntry(<<"a">>, PoolRange("1.2.3.4", "1.2.3.4")), EmptyDict}

PoolReplies ==
    {Build(PoolListPath, l)
       : l \in ListsUpTo(GoodPoolEntries \cup BadPoolEntries,
                         CorePoolEntries, MaxPools)}
    \cup Truncated(PoolListPath)

ZoneNames == {"untrust"}

ZoneItems == {("data" :> "ge-0/0/15.0"), ("data" :> "ge-0/0/7.0"), EmptyDict}

ZoneReplies ==
    {Build(ZonePath, l) : l \in SeqsUpTo(ZoneItems, MaxIfaces)}
    \cup Truncated(ZonePath)

InterfaceNames == {"ge-0/0/10.0"}

(* Raw addresses are strings of characters: the code splits them at '/' *)
RawAddresses == SeqsUpTo({"1", "/"}, MaxAddrLen)

GoodAddrItems == {("ifa-local" :> Data(a)) : a \in RawAddresses}

BadAddrItems == Damaged(("ifa-local" :> Data(<<"1">>)), "ifa-local")

CoreAddrItems ==
    {("ifa-local" :> Data(a)) : a \in {<<"1", "1">>, <<"1", "/", "1">>, <<"/">>}}
    \cup BadAddrItems

IfaceReplies ==
    {Build(IfacePath, l)
       : l \in ListsUpTo(GoodAddrItems \cup BadAddrItems,
                         CoreAddrItems, MaxAddrs)}
    \cup Truncated(IfacePath)

Hosts == {"test-junos"}

(* The device of the test fixture, and the devices that differ from it in  *)
(* the reply to one of the four RPCs                                       *)
FixtureDevice ==
    [snat |-> Build(SnatPath,
                <<SnatEntry("source-nat-rule", "trust", "untrust", "interface"),
                  SnatEntry("snat-rule", "trust", "test", "pool_outbound")>>),
     pool |-> Build(PoolListPath,
                <<PoolEntry(<<"a", "b">>, PoolRange("1.2.3.4", "1.2.3.4"))>>),
     zone |-> Build(ZonePath,
                <<("data" :> "ge-0/0/15.0"), ("data" :> "ge-0/0/7.0")>>),
     iface |-> Build(IfacePath,
                <<("ifa-local" :> Data(<<"1", "/", "1">>)),
                  ("ifa-local" :> Data(<<"1", "1", "/">>))>>)]

Devices ==
    {[FixtureDevice EXCEPT !.snat = r] : r \in SnatReplies}
    \cup {[FixtureDevice EXCEPT !.pool = r] : r \in PoolReplies}
    \cup {[FixtureDevice EXCEPT !.zone = r] : r \in ZoneReplies}
    \cup {[FixtureDevice EXCEPT !.iface = r] : r \in IfaceReplies}

--------------------------------------------------------------------------
(* The client object and the process that drives it *)

QueryOps == {"get_snat_cfg", "get_snat_pool_ip", "get_zone_interface",
             "get_interface_ip"}

Call(op, arg, resp, rpc) == [op |-> op, arg |-> arg, resp |-> resp, rpc |-> rpc]

(* __init__: self.conn = None *)
Init ==
    /\ device \in Devices
    /\ conn = "None"
    /\ status = "running"
    /\ exitCode = -1
    /\ call = Call("__init__", None, None, "none")
    /\ ret = Returned(None, NoOutput)

(* connect that prints the error and returns instead of exiting *)
ConnectNoExit(host) ==
    /\ status = "running"
    /\ UNCHANGED <<device, status, exitCode>>
    /\ \E outcome \in {"opened", "Device_raises", "open_raises"} :
         /\ call' = Call("connect", host, outcome, "none")
         /\ conn' = IF outcome = "opened" THEN "open"
                    ELSE IF outcome = "open_raises" THEN "closed" ELSE conn
         /\ ret' = Returned(None, IF outcome = "opened" THEN NoOutput ELSE "err")

(* connect: Device(...) then open(); any exception is printed and the     *)
(* process exits with code 1.  The handle is assigned before open() runs.  *)
Connect(host) ==
    /\ status = "running"
    /\ UNCHANGED device
    /\ \E outcome \in {"opened", "Device_raises", "open_raises"} :
         /\ call' = Call("connect", host, outcome, "none")
         /\ IF outcome = "opened"
            THEN /\ conn' = "open"
                 /\ ret' = Returned(None, NoOutput)
                 /\ UNCHANGED <<status, exitCode>>
            ELSE /\ conn' = IF outcome = "open_raises" THEN "closed" ELSE conn
                 /\ ret' = Raised("SystemExit", "err")
                 /\ status' = "exited"
                 /\ exitCode' = 1

(* close: self.conn.close() *)
Close ==
    /\ status = "running"
    /\ call' = Call("close", None, None, "none")
    /\ \/ /\ conn = "None"
          /\ ret' = Raised("AttributeError", NoOutput)
          /\ conn' = conn
       \/ /\ conn = "open"
          /\ ret' = Returned(None, NoOutput)
          /\ conn' = "closed"
       \/ /\ conn = "closed"
          /\ \E r \in {Returned(None, NoOutput),
                       Raised("ConnectClosedError", NoOutput)} : ret' = r
          /\ conn' = conn
    /\ UNCHANGED <<device, status, exitCode>>

(* self.conn.rpc.<name>(...) when it hands back no reply: no handle, a    *)
(* handle whose session is not open, or a transport error on a live one    *)
Unanswered(op, arg) ==
    \/ /\ conn = "None"
       /\ call' = Call(op, arg, None, "not_issued")
       /\ ret' = Raised("AttributeError", NoOutput)
    \/ /\ conn = "closed"
       /\ call' = Call(op, arg, None, "not_issued")
       /\ ret' = Raised("ConnectClosedError", NoOutput)
    \/ /\ conn = "open"
       /\ call' = Call(op, arg, None, "failed")
       /\ ret' = Raised("RpcError", NoOutput)

GetSnatCfg ==
    /\ status = "running"
    /\ \/ /\ conn = "open"
          /\ LET resp == device.snat IN
               /\ call' = Call("get_snat_cfg", None, resp, "replied")
               /\ ret' = get_snat_cfg(resp)
       \/ Unanswered("get_snat_cfg", None)
    /\ UNCHANGED <<device, conn, status, exitCode>>

GetSnatPoolIp(snat_pool) ==
    /\ status = "running"
    /\ \/ /\ conn = "open"
          /\ LET resp == device.pool IN
               /\ call' = Call("get_snat_pool_ip", snat_pool, resp, "replied")
               /\ ret' = get_snat_pool_ip(snat_pool, resp)
       \/ Unanswered("get_snat_pool_ip", snat_pool)
    /\ UNCHANGED <<device, conn, status, exitCode>>

(* get_zone_interface that reopens the session when it is not open *)
GetZoneInterfaceReopens(zone) ==
    /\ status = "running"
    /\ \/ /\ conn # "None"
          /\ LET resp == device.zone IN
               /\ call' = Call("get_zone_interface", zone, resp, "replied")
               /\ ret' = get_zone_interface(zone, resp)
          /\ conn' = "open"
       \/ /\ Unanswered("get_zone_interface", zone)
          /\ conn' = conn
    /\ UNCHANGED <<device, status, exitCode>>

GetZoneInterface(zone) ==
    /\ status = "running"
    /\ \/ /\ conn = "open"
          /\ LET resp == device.zone IN
               /\ call' = Call("get_zone_interface", zone, resp, "replied")
               /\ ret' = get_zone_interface(zone, resp)
       \/ Unanswered("get_zone_interface", zone)
    /\ UNCHANGED <<device, conn, status, exitCode>>

GetInterfaceIp(interface) ==
    /\ status = "running"
    /\ \/ /\ conn = "open"
          /\ LET resp == device.iface IN
               /\ call' = Call("get_interface_ip", interface, resp, "replied")
               /\ ret' = get_interface_ip(interface, resp)
       \/ Unanswered("get_interface_ip", interface)
    /\ UNCHANGED <<device, conn, status, exitCode>>

Next ==
    \/ \E host \in Hosts : Connect(host)
    \/ Close
    \/ GetSnatCfg
    \/ \E snat_pool \in PoolNames : GetSnatPoolIp(snat_pool)
    \/ \E zone \in ZoneNames : GetZoneInterface(zone)
    \/ \E interface \in InterfaceNames : GetInterfaceIp(interface)

Spec == Init /\ [][Next]_vars

TypeOK ==
    /\ conn \in {"None", "open", "closed"}
    /\ status \in {"running", "exited"}
    /\ exitCode \in {-1, 1}
    /\ ret.exc \in {"none", "SystemExit", "AttributeError", "IndexError",
                    "ConnectClosedError", "RpcError"}

--------------------------------------------------------------------------
(* Properties *)

(* The last call was op and the device replied to its RPC *)
Answered(op) == call.op = op /\ call.rpc = "replied"

(* ... and the method returned a value to the caller *)
Returns(op) == Answered(op) /\ ret.exc = "none"

(* The fixed path each method descends before it collects anything *)
TopPath(op) ==
    CASE op = "get_snat_cfg" -> SnatPath
      [] op = "get_snat_pool_ip" -> PoolNamePath
      [] op = "get_zone_interface" -> ZonePath
      [] op = "get_interface_ip" -> IfacePath

(* The fields of the record each method returns on success *)
SuccessFields(op) ==
    CASE op = "get_snat_cfg" -> {"entry", "snat_entry"}
      [] op = "get_snat_pool_ip" -> {"entry", "pool_name", "address_range"}
      [] op = "get_zone_interface" -> {"entry", "zone", "interfaces"}
      [] op = "get_interface_ip" -> {"entry", "interface", "ip"}

(* The names under which a method may return its sequence *)
SeqFields(op) ==
    CASE op = "get_snat_cfg" -> {"snat_entry", "snat_cfg"}
      [] op = "get_snat_pool_ip" -> {"address_range"}
      [] op = "get_zone_interface" -> {"interfaces", "interface"}
      [] op = "get_interface_ip" -> {"ip"}

(* The list of entries a reply holds, when its path down to the list is    *)
(* present                                                                 *)
EntriesOf(op, resp) ==
    Descend(resp, IF op = "get_snat_pool_ip" THEN PoolListPath ELSE TopPath(op))

(* C1: every record a query method returns has the field 'entry', and its  *)
(* value is the length of the sequence the record carries.                 *)
C1_CountIsLength ==
    \A op \in QueryOps :
      Returns(op) =>
        /\ "entry" \in DOMAIN ret.val
        /\ \E f \in SeqFields(op) \cap DOMAIN ret.val :
             ret.val["entry"] = Len(ret.val[f])

(* C2: get_snat_pool_ip(p), when the first pool entry is well-formed and   *)
(* its name does not match p, returns {entry: 0, pool_name: p,             *)
(* address_range: []}.                                                     *)
C2_MismatchIsZeroEntry ==
    LET l == EntriesOf("get_snat_pool_ip", call.resp) IN
    ( /\ Answered("get_snat_pool_ip")
      /\ l.exc = "none" /\ Len(l.v) >= 1 /\ l.v[1] \in GoodPoolEntries
      /\ ~ StrIn(call.arg, l.v[1]["pool-name"][1]["data"]) )
    => ret.exc = "none" /\ ret.val = PoolNotFound(call.arg)

(* C3: when a lookup along the fixed path of the reply is absent (a        *)
(* missing key or an empty list at a [0] step), the method returns its     *)
(* zero-entry record and nothing is raised.                                *)
C3_AbsentPathIsZeroEntry ==
    \A op \in QueryOps :
      (Answered(op) /\ Descend(call.resp, TopPath(op)).exc # "none")
      => /\ ret.exc = "none"
         /\ "entry" \in DOMAIN ret.val
         /\ ret.val["entry"] = 0

(* C4: whatever a query method returns has exactly the fields of its       *)
(* success record.                                                         *)
C4_FixedShape ==
    \A op \in QueryOps :
      Returns(op) => DOMAIN ret.val = SuccessFields(op)

(* C6: for a reply holding N entries, get_snat_cfg and get_interface_ip    *)
(* return a sequence of all N entries or an empty one, never a part.       *)
C6_NoPartialResult ==
    \A op \in {"get_snat_cfg", "get_interface_ip"} :
      LET l == EntriesOf(op, call.resp) IN
      (Returns(op) /\ l.exc = "none")
      => \A f \in SeqFields(op) \cap DOMAIN ret.val :
           Len(ret.val[f]) \in {0, Len(l.v)}

(* C5: once connect has failed to open the session, the failure has been  *)
(* printed, the process has exited with code 1 without connect returning,  *)
(* and nothing runs on the client afterwards: no second open, no query, no *)
(* close.                                                                  *)
C5_FailedConnectExits ==
    /\ [](  (call.op = "connect" /\ call.resp # "opened")
            => /\ status = "exited"
               /\ exitCode = 1
               /\ ret.exc = "SystemExit"
               /\ ret.out # NoOutput )
    /\ [][status = "exited" => UNCHANGED vars]_vars

C5_Witness ==
    /\ status = "exited"
    /\ call.op = "connect"
    /\ call.resp = "open_raises"
    /\ exitCode = 1

(* The rule the code is to build from entry e of the reply *)
RuleFields(e) ==
    [name |-> e["ssg-source-rule-name"][1]["data"],
     from |-> e["ssg-source-rule-context-from"][1]["data"],
     to |-> e["ssg-source-rule-context-to"][1]["data"],
     action |-> e["ssg-source-rule-action"][1]["data"]]

(* C7: on a reply with N well-formed rule entries get_snat_cfg returns     *)
(* entry = N and snat_entry = the N rules in reply order, each made of its *)
(* entry's name, context-from, context-to and action.                      *)
C7_SnatRulesInOrder ==
    LET l == EntriesOf("get_snat_cfg", call.resp) IN
    ( /\ Answered("get_snat_cfg")
      /\ l.exc = "none"
      /\ \A i \in 1..Len(l.v) : l.v[i] \in GoodSnatEntries )
    => /\ ret.exc = "none"
       /\ DOMAIN ret.val = {"entry", "snat_entry"}
       /\ ret.val["entry"] = Len(l.v)
       /\ Len(ret.val["snat_entry"]) = Len(l.v)
       /\ \A i \in 1..Len(l.v) : ret.val["snat_entry"][i] = RuleFields(l.v[i])

C7_Witness ==
    LET l == EntriesOf("get_snat_cfg", call.resp) IN
    /\ Answered("get_snat_cfg")
    /\ l.exc = "none"
    /\ Len(l.v) = 2
    /\ l.v[1] \in GoodSnatEntries /\ l.v[2] \in GoodSnatEntries
    /\ l.v[1] # l.v[2]
    /\ ret.exc = "none"
    /\ ret.val["entry"] = 2

(* h is raw with everything from its first '/' onwards removed *)
IsHostPart(h, raw) ==
    /\ Len(h) <= Len(raw)
    /\ \A i \in 1..Len(h) : h[i] = raw[i] /\ h[i] # "/"
    /\ Len(h) < Len(raw) => raw[Len(h) + 1] = "/"

(* C8: on a reply with N well-formed address entries get_interface_ip      *)
(* returns entry = N and ip = the N addresses in reply order, each cut at  *)
(* its first '/': no returned address contains '/', and an address without *)
(* '/' comes back unchanged.                                               *)
C8_AddressesStripped ==
    LET l == EntriesOf("get_interface_ip", call.resp) IN
    ( /\ Answered("get_interface_ip")
      /\ l.exc = "none"
      /\ \A i \in 1..Len(l.v) : l.v[i] \in GoodAddrItems )
    => /\ ret.exc = "none"
       /\ ret.val["interface"] = call.arg
       /\ ret.val["entry"] = Len(l.v)
       /\ Len(ret.val["ip"]) = Len(l.v)
       /\ \A i \in 1..Len(l.v) :
            IsHostPart(ret.val["ip"][i], l.v[i]["ifa-local"][1]["data"])

C8_Witness ==
    LET l == EntriesOf("get_interface_ip", call.resp)
        raw(i) == l.v[i]["ifa-local"][1]["data"]
    IN  /\ Answered("get_interface_ip")
        /\ l.exc = "none"
        /\ Len(l.v) = 2
        /\ l.v[1] \in GoodAddrItems /\ l.v[2] \in GoodAddrItems
        /\ raw(1) = <<"1", "/", "1">>
        /\ raw(2) = <<"1", "1">>
        /\ ret.exc = "none"
        /\ ret.val["ip"] = <<<<"1">>, <<"1", "1">>>>

(* The reply with the same first pool entry and other later entries *)
WithLaterPools(resp, later) ==
    Build(PoolListPath,
          <<EntriesOf("get_snat_pool_ip", resp).v[1]>> \o later)

(* C9: the result of get_snat_pool_ip(p) depends only on p and on the      *)
(* first pool entry of the reply: replacing the later entries by any       *)
(* others gives the same result, and an entry-1 record always comes from   *)
(* the first entry (its name contains p, its range is returned), never     *)
(* from a pool named p further down the list.                              *)
C9_OnlyFirstPool ==
    LET l == EntriesOf("get_snat_pool_ip", call.resp)
        first == l.v[1]
    IN  ( Answered("get_snat_pool_ip") /\ l.exc = "none" /\ Len(l.v) >= 1 )
        => /\ \A later \in SeqsUpTo(GoodPoolEntries \cup BadPoolEntries,
                                    MaxPools - 1) :
                get_snat_pool_ip(call.arg, WithLaterPools(call.resp, later))
                  = ret
           /\ ( /\ ret.exc = "none"
                /\ "entry" \in DOMAIN ret.val
                /\ ret.val["entry"] = 1 )
              => /\ first \in GoodPoolEntries
                 /\ StrIn(call.arg, first["pool-name"][1]["data"])
                 /\ LET rg == first["source-pool-address-range"][1] IN
                    ret.val["address_range"]
                      = <<rg["address-range-low"][1]["data"],
                          rg["address-range-high"][1]["data"]>>

C9_Witness ==
    LET l == EntriesOf("get_snat_pool_ip", call.resp) IN
    /\ Answered("get_snat_pool_ip")
    /\ l.exc = "none"
    /\ Len(l.v) = 2
    /\ l.v[1] \in GoodPoolEntries /\ l.v[2] \in GoodPoolEntries
    /\ ~ StrIn(call.arg, l.v[1]["pool-name"][1]["data"])
    /\ l.v[2]["pool-name"][1]["data"] = call.arg
    /\ ret.exc = "none"
    /\ "entry" \notin DOMAIN ret.val

(* C10: the session is open only between a successful connect and the     *)
(* next close; a query method called with no open session issues no       *)
(* remote call and returns no record; no query method changes the handle.  *)
C10_SessionLifecycle ==
    [][ /\ (conn' = "open" /\ conn # "open")
           => (call'.op = "connect" /\ call'.resp = "opened")
        /\ call'.op = "close" => conn' # "open"
        /\ call'.op \in QueryOps
           => /\ conn' = conn
              /\ conn # "open"
                 => (call'.rpc = "not_issued" /\ ret'.exc # "none")
              /\ call'.rpc # "not_issued" => conn = "open" ]_vars

C10_Witness ==
    /\ call.op \in QueryOps
    /\ conn = "closed"
    /\ call.rpc = "not_issued"
    /\ ret.exc = "ConnectClosedError"

====
